---------------------------- MODULE Spec2Model ----------------------------
(***************************************************************************)
(* The quiz session of src/components/Quiz.tsx (the Quiz component) as a   *)
(* state machine.                                                          *)
(*                                                                         *)
(* Strings are sequences of one-character strings, so that trim() and the  *)
(* /[.,]$/ replacement are computed character by character.  A value of    *)
(* type (T | null) is null == << >> or Val(x) == << x >>.                  *)
(*                                                                         *)
(* One action stands for one user event on a control of the rendered       *)
(* component, followed by the effects React runs after the state update    *)
(* (the draft sync effect of lines 126-135).  A control that the component *)
(* does not render, or renders `disabled` without the handler testing the  *)
(* same condition itself, cannot deliver its event: that condition is the  *)
(* action's enabling guard.  Where the handler tests the condition itself  *)
(* (an early return), the action is enabled and takes the early return.    *)
(***************************************************************************)
EXTENDS Integers, Sequences, FiniteSets, TLC

VARIABLES
    questions,                \* props.questions, fixed for the session
    currentQuestionIndex,     \* 0-based, as in the source
    userAnswers,              \* (string | null)[], slot i+1 is question i
    checkedStates,            \* boolean[]
    showResults,              \* boolean
    tempShortAnswer,          \* string: the short-answer draft
    selfAssessedCorrectness,  \* (boolean | null)[]
    submitted,                \* the calls of props.onSubmit so far, in order
    lastOp,                   \* history: the handler the last event ran
    selfAssessCalls,          \* history: the calls of handleSelfAssessment,
                              \*   each << slot, isCorrect >>, in order
    matcherCall,              \* a direct call of isAnswerMatch: its arguments
                              \*   and result, or null when there is none
    ai,                       \* geminiService's module variable: null or
                              \*   the client made from an API key
    serviceCall,              \* the call of a geminiService function under
                              \*   way or just finished
    isSpeaking,               \* boolean
    isLoadingTTS,             \* boolean
    audioContextRef,          \* audioContextRef.current: null or the context
                              \*   of a call of handlePlayScript
    audioSourceRef,           \* audioSourceRef.current: null or the source
                              \*   of a call of handlePlayScript
    playCalls,                \* where each call of handlePlayScript stands
    audioContexts,            \* the AudioContext each call created, if any
    audioSources,             \* the AudioBufferSourceNode each call created
    playPressed               \* history: the play control was pressed since
                              \*   currentQuestionIndex last changed

vars == << questions, currentQuestionIndex, userAnswers, checkedStates,
           showResults, tempShortAnswer, selfAssessedCorrectness,
           submitted, lastOp, selfAssessCalls, matcherCall,
           ai, serviceCall,
           isSpeaking, isLoadingTTS, audioContextRef, audioSourceRef,
           playCalls, audioContexts, audioSources, playPressed >>

audioVars == << isSpeaking, isLoadingTTS, audioContextRef, audioSourceRef,
                playCalls, audioContexts, audioSources, playPressed >>

session == << currentQuestionIndex, userAnswers, checkedStates,
              showResults, selfAssessedCorrectness >>

-----------------------------------------------------------------------------
(* Bounds and inputs *)

\* How many questions the model's JSON answer to generateQuestions holds.
MaxParsedQuestions == 2

\* How many times in a session handleSelfAssessment is called again on a
\* question that already has an assessment (ReAssess below).
MaxReassessments == 2

\* The longest option and the longest answer isAnswerMatch is called with
\* directly (SpecMatcher below).
MaxOptionLen == 3

MaxAnswerLen == 2

MaxQuestions == 3

\* The longest list of questions of the learner who works forward
\* (SpecForward below).
MaxForwardQuestions == 2

\* How many times in a session handlePlayScript starts a speech request.
MaxPlays == 1

\* The same, where two calls are to overlap (SpecOverlap below).
MaxOverlappingPlays == 2

\* The calls of handlePlayScript the session has room for.
PlayIds == DOMAIN playCalls

null == << >>
Val(x) == << x >>
Get(o) == o[1]

\* Texts the learner can leave in the short-answer input.
Texts == { << >>, << " " >>, << "a" >>, << "a", " " >> }

\* The questions a list is drawn from.
QuestionBank ==
    { [questionType |-> "multiple-choice", options |-> Val(<< <<"A">>, <<"B">> >>),
       answer |-> <<"B">>],
      [questionType |-> "multiple-choice", options |-> Val(<< <<"a", ".">>, <<"A">> >>),
       answer |-> <<"a">>],
      [questionType |-> "multiple-choice", options |-> null,
       answer |-> <<"A">>],
      [questionType |-> "ox", options |-> null,
       answer |-> <<"O">>],
      [questionType |-> "ox", options |-> Val(<< >>),
       answer |-> <<"X">>],
      [questionType |-> "short-answer", options |-> null,
       answer |-> <<"a">>] }

QuestionLists == UNION { [1..n -> QuestionBank] : n \in 1..MaxQuestions }

-----------------------------------------------------------------------------
(* String functions of the JavaScript runtime, as the source uses them *)

WhiteSpace == { " " }

RECURSIVE trimStart(_)
trimStart(s) ==
    IF s # << >> /\ Head(s) \in WhiteSpace THEN trimStart(Tail(s)) ELSE s

RECURSIVE trimEnd(_)
trimEnd(s) ==
    IF s # << >> /\ s[Len(s)] \in WhiteSpace
    THEN trimEnd(SubSeq(s, 1, Len(s) - 1))
    ELSE s

\* String.prototype.trim
trim(s) == trimEnd(trimStart(s))

\* s.replace(/[.,]$/, '')
stripTrailingPunct(s) ==
    IF s # << >> /\ s[Len(s)] \in { ".", "," }
    THEN SubSeq(s, 1, Len(s) - 1)
    ELSE s

\* !option for option : string | null
falsy(option) == option = null \/ option = Val(<< >>)

\* Faulty variant: letter case is folded before the comparison.
isAnswerMatch_CaseFold(option, answer) ==
    LET toLowerCase(s) == [k \in 1..Len(s) |-> IF s[k] = "A" THEN "a" ELSE s[k]]
    IN  IF falsy(option) THEN FALSE
        ELSE IF Get(option) = answer THEN TRUE
        ELSE stripTrailingPunct(trim(toLowerCase(Get(option))))
                 = stripTrailingPunct(trim(toLowerCase(answer)))

isAnswerMatch_OneSided(option, answer) ==
    IF falsy(option) THEN FALSE
    ELSE IF Get(option) = answer THEN TRUE
    ELSE stripTrailingPunct(trim(Get(option))) = answer

isAnswerMatch(option, answer) ==
    IF falsy(option) THEN FALSE
    ELSE IF Get(option) = answer THEN TRUE
    ELSE LET normOption == stripTrailingPunct(trim(Get(option)))
             normAnswer == stripTrailingPunct(trim(answer))
         IN  normOption = normAnswer

-----------------------------------------------------------------------------
(* Values derived on each render *)

length == Len(questions)
cur == currentQuestionIndex + 1          \* the 1-based slot of the current question
currentQuestion == questions[cur]
userAnswer == userAnswers[cur]
isAnswerChecked == checkedStates[cur]

IsMcOrOx(q) == q.questionType = "multiple-choice" \/ q.questionType = "ox"
isMcOrOx == IsMcOrOx(currentQuestion)

\* The option buttons renderQuestionInput produces for question q.
\* !options || options.length === 0
noOptions(q) == q.options = null \/ Get(q.options) = << >>

\* Faulty variant: the 'O'/'X' default is given to every question type.
renderedOptions_DefaultForAll(q) ==
    IF ~IsMcOrOx(q) THEN << >>
    ELSE IF noOptions(q) THEN << <<"O">>, <<"X">> >> ELSE Get(q.options)

\* Faulty variant: the 'O'/'X' default is missing.
renderedOptions_NoDefault(q) ==
    IF ~IsMcOrOx(q) \/ noOptions(q) THEN << >> ELSE Get(q.options)

renderedOptions(q) ==
    IF ~IsMcOrOx(q) THEN << >>
    ELSE LET given == IF q.options = null THEN << >> ELSE Get(q.options)
         IN  IF q.questionType = "ox" /\ given = << >>
             THEN << <<"O">>, <<"X">> >>
             ELSE given

\* const isCorrectAnswer = isAnswerMatch(option, currentQuestion.answer), as
\* computed for each option button of question q.
isCorrectAnswer(q, option) == isAnswerMatch(Val(option), q.answer)

\* The option buttons of question q that carry the correct-answer label and
\* colour once the question is checked.
highlighted(q) ==
    { renderedOptions(q)[k] : k \in { j \in 1..Len(renderedOptions(q)) :
                                        isCorrectAnswer(q, renderedOptions(q)[j]) } }

hasAnswer ==
    IF isMcOrOx THEN userAnswer # null ELSE trim(tempShortAnswer) # << >>
\* Faulty variant: the check button is never disabled.
isCheckAnswerDisabled_Never == FALSE

isCheckAnswerDisabled == ~hasAnswer
\* Faulty variant: the last question's results button is never disabled.
isNextButtonDisabled_ExceptLast ==
    /\ isAnswerChecked /\ ~isMcOrOx /\ selfAssessedCorrectness[cur] = null
    /\ currentQuestionIndex # length - 1

\* Faulty variant: the next button is never disabled.
isNextButtonDisabled_Never == FALSE

isNextButtonDisabled ==
    isAnswerChecked /\ ~isMcOrOx /\ selfAssessedCorrectness[cur] = null
isLastQuestion == currentQuestionIndex = length - 1

\* Faulty variant: the effect is missing, the draft stays as it is.
syncedDraft_Keep(idx, ans) == tempShortAnswer

\* Faulty variant: the effect always clears the draft.
syncedDraft_Blank(idx, ans) == << >>

\* The draft sync effect: the draft it leaves for index idx and answers ans.
syncedDraft(idx, ans) ==
    LET savedAnswer == ans[idx + 1]
    IN  IF ~IsMcOrOx(questions[idx + 1])
        THEN (IF falsy(savedAnswer) THEN << >> ELSE Get(savedAnswer))
        ELSE << >>

-----------------------------------------------------------------------------
\* geminiService.ts just loaded: no client, no call made.
NoCall ==
    [fn |-> "none", pc |-> "idle", protocol |-> "https:", initialised |-> FALSE,
     positive |-> FALSE, contacted |-> << >>, parsed |-> << >>,
     pending |-> {}, illustrated |-> << >>, responses |-> << >>,
     error |-> null, value |-> null]

ServiceIdle ==
    /\ ai = null
    /\ serviceCall = NoCall

-----------------------------------------------------------------------------
\* The audio state of a freshly mounted component, with room for the calls
\* of handlePlayScript named by ids.
AudioInitWith(ids) ==
    /\ isSpeaking = FALSE
    /\ isLoadingTTS = FALSE
    /\ audioContextRef = null
    /\ audioSourceRef = null
    /\ playCalls = [r \in ids |-> "none"]
    /\ audioContexts = [r \in ids |-> "none"]
    /\ audioSources = [r \in ids |-> "none"]
    /\ playPressed = FALSE

AudioInit == AudioInitWith(1..MaxPlays)

Init ==
    /\ questions \in QuestionLists
    /\ currentQuestionIndex = 0
    /\ userAnswers = [i \in 1..Len(questions) |-> null]
    /\ checkedStates = [i \in 1..Len(questions) |-> FALSE]
    /\ showResults = FALSE
    /\ tempShortAnswer = << >>
    /\ selfAssessedCorrectness = [i \in 1..Len(questions) |-> null]
    /\ submitted = << >>
    /\ lastOp = "mount"
    /\ selfAssessCalls = << >>
    /\ matcherCall = null
    /\ ServiceIdle
    /\ AudioInit


-----------------------------------------------------------------------------
(* The handlers: the state update each makes and the effect that follows *)

\* Faulty variant: the selection also marks the question checked.
handleAnswerSelect_AutoCheck(option) ==
    /\ lastOp' = "handleAnswerSelect"
    /\ IF isAnswerChecked
       THEN UNCHANGED << userAnswers, checkedStates, tempShortAnswer >>
       ELSE /\ userAnswers' = [userAnswers EXCEPT ![cur] = Val(option)]
            /\ checkedStates' = [checkedStates EXCEPT ![cur] = TRUE]
            /\ tempShortAnswer' = syncedDraft(currentQuestionIndex, userAnswers')
    /\ UNCHANGED << questions, currentQuestionIndex, showResults,
                    selfAssessedCorrectness, submitted >>

\* Faulty variant: no early return on a checked question.
handleAnswerSelect_NoGuard(option) ==
    /\ lastOp' = "handleAnswerSelect"
    /\ userAnswers' = [userAnswers EXCEPT ![cur] = Val(option)]
    /\ tempShortAnswer' = syncedDraft(currentQuestionIndex, userAnswers')
    /\ UNCHANGED << questions, currentQuestionIndex, checkedStates, showResults,
                    selfAssessedCorrectness, submitted >>

handleAnswerSelect(option) ==
    /\ lastOp' = "handleAnswerSelect"
    /\ IF isAnswerChecked
       THEN UNCHANGED << userAnswers, tempShortAnswer >>
       ELSE /\ userAnswers' = [userAnswers EXCEPT ![cur] = Val(option)]
            /\ tempShortAnswer' = syncedDraft(currentQuestionIndex, userAnswers')
    /\ UNCHANGED << questions, currentQuestionIndex, checkedStates, showResults,
                    selfAssessedCorrectness, submitted >>

\* Faulty variant: no early return on a checked question.
handleShortAnswerChange_NoGuard(value) ==
    /\ lastOp' = "handleShortAnswerChange"
    /\ tempShortAnswer' = value
    /\ UNCHANGED << questions, currentQuestionIndex, userAnswers, checkedStates,
                    showResults, selfAssessedCorrectness, submitted >>

handleShortAnswerChange(value) ==
    /\ lastOp' = "handleShortAnswerChange"
    /\ IF isAnswerChecked
       THEN UNCHANGED tempShortAnswer
       ELSE tempShortAnswer' = value
    /\ UNCHANGED << questions, currentQuestionIndex, userAnswers, checkedStates,
                    showResults, selfAssessedCorrectness, submitted >>

\* Faulty variant: the flag is pushed onto the array instead of stored at
\* the current index.
handleCheckAnswer_Push ==
    /\ lastOp' = "handleCheckAnswer"
    /\ IF ~isMcOrOx
       THEN userAnswers' = [userAnswers EXCEPT ![cur] = Val(tempShortAnswer)]
       ELSE UNCHANGED userAnswers
    /\ checkedStates' = Append(checkedStates, TRUE)
    /\ tempShortAnswer' = syncedDraft(currentQuestionIndex, userAnswers')
    /\ UNCHANGED << questions, currentQuestionIndex, showResults,
                    selfAssessedCorrectness, submitted >>

\* Faulty variant: the checked flags are rebuilt instead of copied.
handleCheckAnswer_FreshChecked ==
    /\ lastOp' = "handleCheckAnswer"
    /\ IF ~isMcOrOx
       THEN userAnswers' = [userAnswers EXCEPT ![cur] = Val(tempShortAnswer)]
       ELSE UNCHANGED userAnswers
    /\ checkedStates' = [i \in 1..length |-> i = cur]
    /\ tempShortAnswer' = syncedDraft(currentQuestionIndex, userAnswers')
    /\ UNCHANGED << questions, currentQuestionIndex, showResults,
                    selfAssessedCorrectness, submitted >>

\* Faulty variant: the draft is trimmed before it is committed.
handleCheckAnswer_Trim ==
    /\ lastOp' = "handleCheckAnswer"
    /\ IF ~isMcOrOx
       THEN userAnswers' = [userAnswers EXCEPT ![cur] = Val(trim(tempShortAnswer))]
       ELSE UNCHANGED userAnswers
    /\ checkedStates' = [checkedStates EXCEPT ![cur] = TRUE]
    /\ tempShortAnswer' = syncedDraft(currentQuestionIndex, userAnswers')
    /\ UNCHANGED << questions, currentQuestionIndex, showResults,
                    selfAssessedCorrectness, submitted >>

handleCheckAnswer ==
    /\ lastOp' = "handleCheckAnswer"
    /\ IF ~isMcOrOx
       THEN userAnswers' = [userAnswers EXCEPT ![cur] = Val(tempShortAnswer)]
       ELSE UNCHANGED userAnswers
    /\ checkedStates' = [checkedStates EXCEPT ![cur] = TRUE]
    /\ tempShortAnswer' = syncedDraft(currentQuestionIndex, userAnswers')
    /\ UNCHANGED << questions, currentQuestionIndex, showResults,
                    selfAssessedCorrectness, submitted >>

\* Faulty variant: an assessment already given is kept.
handleSelfAssessment_KeepFirst(isCorrect) ==
    /\ lastOp' = "handleSelfAssessment"
    /\ selfAssessedCorrectness' =
           [selfAssessedCorrectness EXCEPT
               ![cur] = IF @ = null THEN Val(isCorrect) ELSE @]
    /\ UNCHANGED << questions, currentQuestionIndex, userAnswers, checkedStates,
                    showResults, tempShortAnswer, submitted >>

handleSelfAssessment(isCorrect) ==
    /\ lastOp' = "handleSelfAssessment"
    /\ selfAssessedCorrectness' =
           [selfAssessedCorrectness EXCEPT ![cur] = Val(isCorrect)]
    /\ UNCHANGED << questions, currentQuestionIndex, userAnswers, checkedStates,
                    showResults, tempShortAnswer, submitted >>

\* Faulty variant: going back drops the selection of an unchecked question.
handlePrev_DropUnchecked ==
    /\ lastOp' = "handlePrev"
    /\ IF currentQuestionIndex > 0
       THEN /\ currentQuestionIndex' = currentQuestionIndex - 1
            /\ userAnswers' =
                   [userAnswers EXCEPT ![cur] = IF isAnswerChecked THEN @ ELSE null]
            /\ tempShortAnswer' = syncedDraft(currentQuestionIndex', userAnswers')
       ELSE UNCHANGED << currentQuestionIndex, userAnswers, tempShortAnswer >>
    /\ UNCHANGED << questions, checkedStates, showResults,
                    selfAssessedCorrectness, submitted >>

\* Faulty variant: at index 0 the cursor wraps to the last question.
handlePrev_Wrap ==
    /\ lastOp' = "handlePrev"
    /\ currentQuestionIndex' =
           (IF currentQuestionIndex > 0 THEN currentQuestionIndex - 1 ELSE length - 1)
    /\ tempShortAnswer' = syncedDraft(currentQuestionIndex', userAnswers)
    /\ UNCHANGED << questions, userAnswers, checkedStates, showResults,
                    selfAssessedCorrectness, submitted >>

handlePrev ==
    /\ lastOp' = "handlePrev"
    /\ IF currentQuestionIndex > 0
       THEN /\ currentQuestionIndex' = currentQuestionIndex - 1
            /\ tempShortAnswer' = syncedDraft(currentQuestionIndex', userAnswers)
       ELSE UNCHANGED << currentQuestionIndex, tempShortAnswer >>
    /\ UNCHANGED << questions, userAnswers, checkedStates, showResults,
                    selfAssessedCorrectness, submitted >>

\* Faulty variant: every question is graded by the matcher.
\* Faulty variant: the report grades by strict equality with the answer.
calculatedCorrectness_Exact ==
    [index \in 1..length |->
        IF ~IsMcOrOx(questions[index])
        THEN selfAssessedCorrectness[index] = Val(TRUE)
        ELSE userAnswers[index] = Val(questions[index].answer)]

calculatedCorrectness_AllAuto ==
    [index \in 1..length |->
        isAnswerMatch(userAnswers[index], questions[index].answer)]

\* questions.map(...) of handleNext
calculatedCorrectness ==
    [index \in 1..length |->
        IF ~IsMcOrOx(questions[index])
        THEN selfAssessedCorrectness[index] = Val(TRUE)
        ELSE isAnswerMatch(userAnswers[index], questions[index].answer)]

correctCount == Cardinality({ i \in 1..length : calculatedCorrectness[i] = TRUE })

\* Faulty variant: the ratio is not scaled to a percentage.
scorePercentage_NoScale == [num |-> correctCount, den |-> length]

\* (correctCount / questions.length) * 100, kept as the exact fraction num/den.
scorePercentage == [num |-> correctCount * 100, den |-> length]

\* Faulty variant: the callback receives the answers as they were at mount.
report_InitialAnswers ==
    [score |-> scorePercentage, correctAnswers |-> correctCount,
     totalQuestions |-> length, userAnswers |-> [i \in 1..length |-> null],
     correctness |-> calculatedCorrectness]

\* The arguments of onSubmit(...)
report ==
    [score |-> scorePercentage, correctAnswers |-> correctCount,
     totalQuestions |-> length, userAnswers |-> userAnswers,
     correctness |-> calculatedCorrectness]

\* Faulty variant: the button does nothing.
handleNext_Stay ==
    /\ lastOp' = "handleNext"
    /\ UNCHANGED << questions, currentQuestionIndex, userAnswers, checkedStates,
                    showResults, tempShortAnswer, selfAssessedCorrectness,
                    submitted >>

\* Faulty variant: onSubmit is called on every press of the button.
handleNext_AlwaysSubmit ==
    /\ lastOp' = "handleNext"
    /\ submitted' = Append(submitted, report)
    /\ IF currentQuestionIndex < length - 1
       THEN /\ currentQuestionIndex' = currentQuestionIndex + 1
            /\ tempShortAnswer' = syncedDraft(currentQuestionIndex', userAnswers)
            /\ UNCHANGED showResults
       ELSE /\ showResults' = TRUE
            /\ UNCHANGED << currentQuestionIndex, tempShortAnswer >>
    /\ UNCHANGED << questions, userAnswers, checkedStates,
                    selfAssessedCorrectness >>

handleNext ==
    /\ lastOp' = "handleNext"
    /\ IF currentQuestionIndex < length - 1
       THEN /\ currentQuestionIndex' = currentQuestionIndex + 1
            /\ tempShortAnswer' = syncedDraft(currentQuestionIndex', userAnswers)
            /\ UNCHANGED << showResults, submitted >>
       ELSE /\ showResults' = TRUE
            /\ submitted' = Append(submitted, report)
            /\ UNCHANGED << currentQuestionIndex, tempShortAnswer >>
    /\ UNCHANGED << questions, userAnswers, checkedStates,
                    selfAssessedCorrectness >>

-----------------------------------------------------------------------------
(* Audio *)

\* stopAudio: the source the ref holds is stopped and the ref cleared; the
\* context the ref holds starts closing, and its ref is cleared only when
\* close() resolves (ContextClosed below); both flags are reset.
stopAudio ==
    /\ audioSources' =
           IF audioSourceRef # null /\ audioSources[Get(audioSourceRef)] = "playing"
           THEN [audioSources EXCEPT ![Get(audioSourceRef)] = "stopped"]
           ELSE audioSources
    /\ audioSourceRef' = null
    /\ audioContexts' =
           IF audioContextRef # null /\ audioContexts[Get(audioContextRef)] # "closed"
           THEN [audioContexts EXCEPT ![Get(audioContextRef)] = "closing"]
           ELSE audioContexts
    /\ UNCHANGED audioContextRef
    /\ isSpeaking' = FALSE
    /\ isLoadingTTS' = FALSE

\* useEffect(..., [currentQuestionIndex]): stop audio when changing questions.
questionChangeEffect ==
    IF currentQuestionIndex' # currentQuestionIndex
    THEN /\ stopAudio
         /\ playPressed' = FALSE
         /\ UNCHANGED playCalls
    ELSE UNCHANGED audioVars

-----------------------------------------------------------------------------
(* The events the rendered component can deliver *)

\* Faulty variant: the component keeps rendering after completion.
rendered_Always == TRUE

\* Faulty variant: the question is covered while a speech request loads.
rendered_NotLoading == ~showResults /\ ~isLoadingTTS

\* if (showResults) return null
rendered == ~showResults

\* An option button of a multiple-choice/ox question.
SelectOption ==
    /\ rendered
    /\ \E k \in 1..Len(renderedOptions(currentQuestion)) :
           handleAnswerSelect(renderedOptions(currentQuestion)[k])
    /\ UNCHANGED << selfAssessCalls, matcherCall, ai, serviceCall >>
    /\ UNCHANGED audioVars

\* The text input of a short-answer question.
TypeShortAnswer ==
    /\ rendered
    /\ ~isMcOrOx
    /\ \E value \in Texts : handleShortAnswerChange(value)
    /\ UNCHANGED << selfAssessCalls, matcherCall, ai, serviceCall >>
    /\ UNCHANGED audioVars

\* The check button, shown while the question is unchecked.
CheckAnswer ==
    /\ rendered
    /\ ~isAnswerChecked
    /\ ~isCheckAnswerDisabled
    /\ handleCheckAnswer
    /\ UNCHANGED << selfAssessCalls, matcherCall, ai, serviceCall >>
    /\ UNCHANGED audioVars

\* Faulty variant: the buttons are shown for every type of question.
selfAssessmentRendered_AnyType ==
    isAnswerChecked /\ selfAssessedCorrectness[cur] = null

\* Faulty variant: the buttons are shown before the question is checked.
selfAssessmentRendered_Unchecked ==
    ~isMcOrOx /\ selfAssessedCorrectness[cur] = null

\* Faulty variant: the buttons stay after an assessment was given.
selfAssessmentRendered_Stay ==
    ~isMcOrOx /\ isAnswerChecked

\* The two self-assessment buttons of a checked short-answer question.
selfAssessmentRendered ==
    ~isMcOrOx /\ isAnswerChecked /\ selfAssessedCorrectness[cur] = null

SelfAssess ==
    /\ rendered
    /\ selfAssessmentRendered
    /\ \E isCorrect \in BOOLEAN :
           /\ handleSelfAssessment(isCorrect)
           /\ selfAssessCalls' = Append(selfAssessCalls, << cur, isCorrect >>)
    /\ UNCHANGED << matcherCall, ai, serviceCall >>
    /\ UNCHANGED audioVars

\* The previous button (disabled at index 0, where handlePrev returns early).
GoPrev ==
    /\ rendered
    /\ handlePrev
    /\ UNCHANGED << selfAssessCalls, matcherCall, ai, serviceCall >>
    /\ questionChangeEffect

\* Faulty variant: the next button is shown as soon as there is an answer.
GoNext_Answered ==
    /\ rendered
    /\ isAnswerChecked \/ hasAnswer
    /\ ~isNextButtonDisabled
    /\ handleNext
    /\ UNCHANGED << selfAssessCalls, matcherCall, ai, serviceCall >>
    /\ questionChangeEffect

\* Faulty variant: the next button is shown on an unchecked question too.
GoNext_Unchecked ==
    /\ ~showResults
    /\ ~isNextButtonDisabled
    /\ handleNext
    /\ UNCHANGED << selfAssessCalls, matcherCall, ai, serviceCall >>
    /\ questionChangeEffect

\* The next/results button, shown once the question is checked.
GoNext ==
    /\ rendered
    /\ isAnswerChecked
    /\ ~isNextButtonDisabled
    /\ handleNext
    /\ UNCHANGED << selfAssessCalls, matcherCall, ai, serviceCall >>
    /\ questionChangeEffect

Next ==
    \/ SelectOption
    \/ TypeShortAnswer
    \/ CheckAnswer
    \/ SelfAssess
    \/ GoPrev
    \/ GoNext

Spec == Init /\ [][Next]_vars

-----------------------------------------------------------------------------
(* handleSelfAssessment called again *)

\* The calls of handleSelfAssessment beyond the first one of each question.
reassessments ==
    Len(selfAssessCalls)
        - Cardinality({ i \in 1..length : selfAssessedCorrectness[i] # null })

\* handleSelfAssessment applied to a checked short-answer question that
\* already has an assessment.  The handler accepts the call; the rendered
\* component has no control that makes it (selfAssessmentRendered), so this
\* step is a caller of the handler other than the two buttons.
ReAssess ==
    /\ rendered
    /\ ~isMcOrOx /\ isAnswerChecked
    /\ selfAssessedCorrectness[cur] # null
    /\ reassessments < MaxReassessments
    /\ \E isCorrect \in BOOLEAN :
           /\ handleSelfAssessment(isCorrect)
           /\ selfAssessCalls' = Append(selfAssessCalls, << cur, isCorrect >>)
    /\ UNCHANGED << matcherCall, ai, serviceCall >>
    /\ UNCHANGED audioVars

\* The learner stays on the first question: answers it, has it checked,
\* assesses it, and handleSelfAssessment is then called again.
NextReassess ==
    \/ TypeShortAnswer
    \/ CheckAnswer
    \/ SelfAssess
    \/ ReAssess

SpecReassess == Init /\ [][NextReassess]_vars

-----------------------------------------------------------------------------
(* The learner who works forward *)

\* The lists in which every question shows a way to answer it: no
\* multiple-choice question without options.
AnswerableLists ==
    { qs \in UNION { [1..n -> QuestionBank] : n \in 1..MaxForwardQuestions } :
          \A i \in 1..Len(qs) :
              ~(qs[i].questionType = "multiple-choice" /\ noOptions(qs[i])) }

InitAnswerable ==
    /\ questions \in AnswerableLists
    /\ currentQuestionIndex = 0
    /\ userAnswers = [i \in 1..Len(questions) |-> null]
    /\ checkedStates = [i \in 1..Len(questions) |-> FALSE]
    /\ showResults = FALSE
    /\ tempShortAnswer = << >>
    /\ selfAssessedCorrectness = [i \in 1..Len(questions) |-> null]
    /\ submitted = << >>
    /\ lastOp = "mount"
    /\ selfAssessCalls = << >>
    /\ matcherCall = null
    /\ ServiceIdle
    /\ AudioInit

\* The forward actions: answer a question that has no answer yet, have it
\* checked, assess it when that is required, go to the next question.
ForwardStep ==
    \/ (userAnswer = null /\ ~isAnswerChecked /\ SelectOption)
    \/ (~isAnswerChecked /\ ~hasAnswer /\ TypeShortAnswer
           /\ trim(tempShortAnswer') # << >>)
    \/ CheckAnswer
    \/ SelfAssess
    \/ GoNext

\* The learner may do anything the component offers, and does not stop while
\* a forward action is possible.
SpecForward == InitAnswerable /\ [][Next]_vars /\ WF_vars(ForwardStep)

-----------------------------------------------------------------------------
(* handleCheckAnswer called again *)

\* handleCheckAnswer applied to a question that is already checked.  The
\* rendered component shows the next button in place of the check button
\* then, so this step is a caller of the handler other than that button.
ReCheck ==
    /\ rendered
    /\ isAnswerChecked
    /\ handleCheckAnswer
    /\ UNCHANGED << selfAssessCalls, matcherCall, ai, serviceCall >>
    /\ UNCHANGED audioVars

NextRecheck ==
    \/ Next
    \/ ReCheck

SpecRecheck == Init /\ [][NextRecheck]_vars

-----------------------------------------------------------------------------
(* The play control and the calls of handlePlayScript in flight *)

\* Questions with a passage, which is what shows the play control.
AudioQuestionBank ==
    { [questionType |-> "multiple-choice", options |-> Val(<< <<"A">>, <<"B">> >>),
       answer |-> <<"B">>, passage |-> Val(<< "a" >>)],
      [questionType |-> "short-answer", options |-> null,
       answer |-> <<"a">>, passage |-> Val(<< "a" >>)],
      [questionType |-> "ox", options |-> null,
       answer |-> <<"O">>, passage |-> null] }

\* Two questions, so that there is a question to change to.
AudioQuestionLists == [1..2 -> AudioQuestionBank]

InitAudio ==
    /\ questions \in AudioQuestionLists
    /\ currentQuestionIndex = 0
    /\ userAnswers = [i \in 1..Len(questions) |-> null]
    /\ checkedStates = [i \in 1..Len(questions) |-> FALSE]
    /\ showResults = FALSE
    /\ tempShortAnswer = << >>
    /\ selfAssessedCorrectness = [i \in 1..Len(questions) |-> null]
    /\ submitted = << >>
    /\ lastOp = "mount"
    /\ selfAssessCalls = << >>
    /\ matcherCall = null
    /\ ServiceIdle
    /\ AudioInit

sessionState == << questions, currentQuestionIndex, userAnswers, checkedStates,
                  showResults, tempShortAnswer, selfAssessedCorrectness,
                  submitted >>

\* The call of handlePlayScript that a press of the play control starts.
nextPlayId == CHOOSE r \in PlayIds :
                  /\ playCalls[r] = "none"
                  /\ \A q \in PlayIds : playCalls[q] = "none" => r <= q

\* handlePlayScript up to its first await.
handlePlayScript ==
    /\ lastOp' = "handlePlayScript"
    /\ IF isSpeaking \/ isLoadingTTS
       THEN /\ stopAudio
            /\ UNCHANGED playCalls
       ELSE /\ \E r \in PlayIds : playCalls[r] = "none"
            /\ isLoadingTTS' = TRUE
            /\ playCalls' = [playCalls EXCEPT ![nextPlayId] = "generateSpeech"]
            /\ UNCHANGED << isSpeaking, audioContextRef, audioSourceRef,
                            audioContexts, audioSources >>

\* The play control: shown with a passage, disabled while isLoadingTTS.
PressPlay ==
    /\ rendered
    /\ currentQuestion.passage # null
    /\ ~isLoadingTTS
    /\ handlePlayScript
    /\ playPressed' = TRUE
    /\ UNCHANGED << sessionState, selfAssessCalls, matcherCall, ai, serviceCall >>

\* generateSpeech resolved: the call creates its AudioContext, stores it in
\* the ref and goes on to decode the audio.
SpeechResolved(r) ==
    /\ playCalls[r] = "generateSpeech"
    /\ lastOp' = "generateSpeech"
    /\ playCalls' = [playCalls EXCEPT ![r] = "decodeAudioData"]
    /\ audioContexts' = [audioContexts EXCEPT ![r] = "open"]
    /\ audioContextRef' = Val(r)
    /\ UNCHANGED << isSpeaking, isLoadingTTS, audioSourceRef, audioSources,
                    playPressed >>
    /\ UNCHANGED << sessionState, selfAssessCalls, matcherCall, ai, serviceCall >>

\* Faulty variant: the loading flag is left set when playback starts.
PlaybackStarted_KeepsLoading(r) ==
    /\ playCalls[r] = "decodeAudioData"
    /\ lastOp' = "source.start"
    /\ playCalls' = [playCalls EXCEPT ![r] = "started"]
    /\ audioSources' = [audioSources EXCEPT ![r] = "playing"]
    /\ audioSourceRef' = Val(r)
    /\ isSpeaking' = TRUE
    /\ UNCHANGED << isLoadingTTS, audioContextRef, audioContexts, playPressed >>
    /\ UNCHANGED << sessionState, selfAssessCalls, matcherCall, ai, serviceCall >>

\* The audio is decoded: the call creates its source, stores it in the ref,
\* starts it and sets the flags.
PlaybackStarted(r) ==
    /\ playCalls[r] = "decodeAudioData"
    /\ lastOp' = "source.start"
    /\ playCalls' = [playCalls EXCEPT ![r] = "started"]
    /\ audioSources' = [audioSources EXCEPT ![r] = "playing"]
    /\ audioSourceRef' = Val(r)
    /\ isLoadingTTS' = FALSE
    /\ isSpeaking' = TRUE
    /\ UNCHANGED << audioContextRef, audioContexts, playPressed >>
    /\ UNCHANGED << sessionState, selfAssessCalls, matcherCall, ai, serviceCall >>

\* Faulty variant: a failed request ends the quiz.
PlayFailed_EndsQuiz(r) ==
    /\ playCalls[r] \in { "generateSpeech", "decodeAudioData" }
    /\ lastOp' = "catch"
    /\ playCalls' = [playCalls EXCEPT ![r] = "failed"]
    /\ stopAudio
    /\ showResults' = TRUE
    /\ UNCHANGED << questions, currentQuestionIndex, userAnswers, checkedStates,
                    tempShortAnswer, selfAssessedCorrectness, submitted >>
    /\ UNCHANGED << playPressed, selfAssessCalls, matcherCall, ai, serviceCall >>

\* generateSpeech rejected, or decoding threw: the catch block reports the
\* error and calls stopAudio.
PlayFailed(r) ==
    /\ playCalls[r] \in { "generateSpeech", "decodeAudioData" }
    /\ lastOp' = "catch"
    /\ playCalls' = [playCalls EXCEPT ![r] = "failed"]
    /\ stopAudio
    /\ UNCHANGED << playPressed, sessionState, selfAssessCalls, matcherCall, ai, serviceCall >>

\* A source is heard while it is started, not stopped, and its context open.
playing(r) == audioSources[r] = "playing" /\ audioContexts[r] = "open"

\* source.onended = () => stopAudio(), for a source that played to its end.
PlaybackEnded(r) ==
    /\ playing(r)
    /\ lastOp' = "onended"
    /\ audioSources' =
           [q \in PlayIds |->
               IF q = r THEN "ended"
               ELSE IF audioSourceRef = Val(q) /\ audioSources[q] = "playing"
                    THEN "stopped"
                    ELSE audioSources[q]]
    /\ audioSourceRef' = null
    /\ audioContexts' =
           IF audioContextRef # null /\ audioContexts[Get(audioContextRef)] # "closed"
           THEN [audioContexts EXCEPT ![Get(audioContextRef)] = "closing"]
           ELSE audioContexts
    /\ isSpeaking' = FALSE
    /\ isLoadingTTS' = FALSE
    /\ UNCHANGED << audioContextRef, playCalls, playPressed >>
    /\ UNCHANGED << sessionState, selfAssessCalls, matcherCall, ai, serviceCall >>

\* close().then(() => { audioContextRef.current = null; })
ContextClosed(r) ==
    /\ audioContexts[r] = "closing"
    /\ lastOp' = "close"
    /\ audioContexts' = [audioContexts EXCEPT ![r] = "closed"]
    /\ audioContextRef' = null
    /\ UNCHANGED << isSpeaking, isLoadingTTS, audioSourceRef, playCalls,
                    audioSources, playPressed >>
    /\ UNCHANGED << sessionState, selfAssessCalls, matcherCall, ai, serviceCall >>

NextAudio ==
    \/ Next
    \/ PressPlay
    \/ \E r \in PlayIds : SpeechResolved(r)
    \/ \E r \in PlayIds : PlaybackStarted(r)
    \/ \E r \in PlayIds : PlayFailed(r)
    \/ \E r \in PlayIds : PlaybackEnded(r)
    \/ \E r \in PlayIds : ContextClosed(r)

SpecAudio == InitAudio /\ [][NextAudio]_vars

\* A call of handlePlayScript goes on after each of its awaits: the service
\* call returns or fails, and so does the decoding.
PlayContinues(r) == SpeechResolved(r) \/ PlaybackStarted(r) \/ PlayFailed(r)

\* Lists that show the play control on both questions, the first of them a
\* multiple-choice question.
PassageLists ==
    { qs \in AudioQuestionLists :
          /\ qs[1].questionType = "multiple-choice"
          /\ \A i \in 1..Len(qs) : qs[i].passage # null }

InitPassages ==
    /\ questions \in PassageLists
    /\ currentQuestionIndex = 0
    /\ userAnswers = [i \in 1..Len(questions) |-> null]
    /\ checkedStates = [i \in 1..Len(questions) |-> FALSE]
    /\ showResults = FALSE
    /\ tempShortAnswer = << >>
    /\ selfAssessedCorrectness = [i \in 1..Len(questions) |-> null]
    /\ submitted = << >>
    /\ lastOp = "mount"
    /\ selfAssessCalls = << >>
    /\ matcherCall = null
    /\ ServiceIdle
    /\ AudioInit

SpecAudioFair ==
    /\ InitPassages
    /\ [][NextAudio]_vars
    /\ \A r \in 1..MaxPlays : WF_vars(PlayContinues(r))

\* The same component with room for two calls of handlePlayScript, so that a
\* call started before a change of question and one started after it overlap.
InitOverlap ==
    /\ questions \in AudioQuestionLists
    /\ currentQuestionIndex = 0
    /\ userAnswers = [i \in 1..Len(questions) |-> null]
    /\ checkedStates = [i \in 1..Len(questions) |-> FALSE]
    /\ showResults = FALSE
    /\ tempShortAnswer = << >>
    /\ selfAssessedCorrectness = [i \in 1..Len(questions) |-> null]
    /\ submitted = << >>
    /\ lastOp = "mount"
    /\ selfAssessCalls = << >>
    /\ matcherCall = null
    /\ ServiceIdle
    /\ AudioInitWith(1..MaxOverlappingPlays)

SpecOverlap == InitOverlap /\ [][NextAudio]_vars

-----------------------------------------------------------------------------
(* isAnswerMatch called directly *)

\* The characters of the arguments: two letters that differ in case only,
\* a whitespace character, and the two characters of the class [.,].
Alphabet == { "a", "A", " ", ".", "," }

StringsUpTo(n) == UNION { [1..k -> Alphabet] : k \in 0..n }

\* option : string | null
Options == { null } \cup { Val(s) : s \in StringsUpTo(MaxOptionLen) }

\* answer : string
Answers == StringsUpTo(MaxAnswerLen)

\* The function is defined at module level: it is called here with no
\* session under way.
InitMatcher ==
    /\ questions = << >>
    /\ currentQuestionIndex = 0
    /\ userAnswers = << >>
    /\ checkedStates = << >>
    /\ showResults = FALSE
    /\ tempShortAnswer = << >>
    /\ selfAssessedCorrectness = << >>
    /\ submitted = << >>
    /\ lastOp = "mount"
    /\ selfAssessCalls = << >>
    /\ AudioInit
    /\ ServiceIdle
    /\ \E option \in Options, answer \in Answers :
           matcherCall = [option |-> option, answer |-> answer, result |-> null]

CallMatcher ==
    /\ matcherCall.result = null
    /\ matcherCall' =
           [matcherCall EXCEPT
               !.result = Val(isAnswerMatch(matcherCall.option, matcherCall.answer))]
    /\ lastOp' = "isAnswerMatch"
    /\ UNCHANGED << questions, currentQuestionIndex, userAnswers, checkedStates,
                    showResults, tempShortAnswer, selfAssessedCorrectness,
                    submitted, selfAssessCalls, ai, serviceCall >>
    /\ UNCHANGED audioVars

NextMatcher == CallMatcher

SpecMatcher == InitMatcher /\ [][NextMatcher]_vars

-----------------------------------------------------------------------------
(* geminiService.ts *)

\* Error messages, named by what they say.
errNotInitialised == "AI service not initialised, set the API key first"
errInvalidKey == "API key is not valid, set a correct key"
errFileProtocol == "AI communication error: opened from a file"
errCommunication == "error communicating with the AI model"
errNoAudio == "no audio data received from the API"

\* Messages of the errors the SDK or JSON.parse raise.
ApiErrors ==
    { "API key not valid", "Requested entity was not found.", "fetch failed" }
errSyntax == "SyntaxError"

ApiKeys == { << >>, << "k" >> }
Protocols == { "file:", "https:" }

\* The message of the error handleApiError throws for an error with message
\* msg, on a page loaded over protocol.
handleApiError(msg, protocol) ==
    IF msg \in { "API key not valid", "Requested entity was not found." }
    THEN errInvalidKey
    ELSE IF protocol = "file:" THEN errFileProtocol
    ELSE errCommunication

\* What generateImages answers: an error (an image entry without an image
\* object ends in a TypeError inside the try block and counts as one), no
\* generated images, or an image with its base64 bytes.
ImageResponses ==
    { [kind |-> "throws", bytes |-> << >>],
      [kind |-> "noImages", bytes |-> << >>] }
    \cup { [kind |-> "image", bytes |-> b] : b \in { << "i" >>, << "j" >> } }

NoResponse == [kind |-> "none", bytes |-> << >>]

\* The value generateIllustration resolves to: client is what the module
\* variable ai holds at the call, response what generateImages answers.
generateIllustration(client, response) ==
    IF client = null THEN null
    ELSE IF response.kind = "image" THEN Val(response.bytes)
    ELSE null

\* imagePrompt of a parsed question: absent, empty, blank or a prompt.
ImagePrompts == { null, Val(<< >>), Val(<< " " >>), Val(<< "p" >>) }

\* The arrays JSON.parse returns: question i carries id i.
ParsedLists ==
    UNION { { qs \in [1..n -> [id : 1..MaxParsedQuestions,
                               imagePrompt : ImagePrompts]] :
                  \A i \in 1..n : qs[i].id = i } :
            n \in 0..MaxParsedQuestions }

\* q.imagePrompt && q.imagePrompt.trim() !== ''
wantsIllustration(q) ==
    ~falsy(q.imagePrompt) /\ trim(Get(q.imagePrompt)) # << >>

\* { ...q, imageBase64: imageBase64 || undefined } for a question with a
\* prompt, q itself otherwise. A property that is undefined and a property
\* that is missing are both written null.
withImage(q, imageBase64) ==
    [id |-> q.id, imagePrompt |-> q.imagePrompt,
     imageBase64 |-> IF wantsIllustration(q) /\ ~falsy(imageBase64)
                     THEN imageBase64 ELSE null]

questionsWithImages_DropFailed(parsed, illustrated) ==
    SelectSeq([i \in 1..Len(parsed) |-> withImage(parsed[i], illustrated[i])],
              LAMBDA q : ~wantsIllustration(q) \/ q.imageBase64 # null)

\* What Promise.all resolves to: one entry per parsed question, in the
\* order of the array, whatever the order the illustrations settled in.
questionsWithImages(parsed, illustrated) ==
    [i \in 1..Len(parsed) |-> withImage(parsed[i], illustrated[i])]

\* requests: the count of each QuestionRequest.
Requests == UNION { [1..n -> [count : 0..1]] : n \in 0..2 }

RECURSIVE totalQuestions(_)
totalQuestions(requests) ==
    IF requests = << >> THEN 0
    ELSE Head(requests).count + totalQuestions(Tail(requests))

InitService ==
    /\ questions = << >>
    /\ currentQuestionIndex = 0
    /\ userAnswers = << >>
    /\ checkedStates = << >>
    /\ showResults = FALSE
    /\ tempShortAnswer = << >>
    /\ selfAssessedCorrectness = << >>
    /\ submitted = << >>
    /\ lastOp = "mount"
    /\ selfAssessCalls = << >>
    /\ matcherCall = null
    /\ AudioInit
    /\ ServiceIdle

componentUnchanged ==
    /\ UNCHANGED << questions, currentQuestionIndex, userAnswers, checkedStates,
                    showResults, tempShortAnswer, selfAssessedCorrectness,
                    submitted, selfAssessCalls, matcherCall >>
    /\ UNCHANGED audioVars

\* The functions are called one at a time.
callable == serviceCall.pc \in { "idle", "done" }

\* A call entered: initialised records whether initializeAi had succeeded.
entered(fn, protocol, positive) ==
    [NoCall EXCEPT !.fn = fn, !.pc = "entered", !.protocol = protocol,
                   !.initialised = (ai # null), !.positive = positive]

\* catch (error) { handleApiError(error); }: the promise is rejected with
\* the error handleApiError throws.
rejected(call, msg) ==
    [call EXCEPT !.pc = "done",
                 !.error = Val(handleApiError(msg, call.protocol))]

resolved(call, v) ==
    [call EXCEPT !.pc = "done", !.value = Val(v)]

\* The synchronous part of the three functions that build a prompt, call
\* getAi() inside the try block and await one request to model.
callModel(fn, model, protocol) ==
    LET call == entered(fn, protocol, TRUE)
    IN  IF ai = null THEN rejected(call, errNotInitialised)
        ELSE [call EXCEPT !.pc = "model", !.contacted = << model >>]

initializeAi(apiKey) ==
    /\ ai' = IF apiKey = << >> THEN ai ELSE Val(apiKey)
    /\ lastOp' = "initializeAi"
    /\ UNCHANGED serviceCall
    /\ componentUnchanged

generateSpeech(protocol) ==
    /\ callable
    /\ serviceCall' =
           callModel("generateSpeech", "gemini-2.5-flash-preview-tts", protocol)
    /\ lastOp' = "generateSpeech"
    /\ UNCHANGED ai
    /\ componentUnchanged

getExplanationStream(protocol) ==
    /\ callable
    /\ serviceCall' =
           callModel("getExplanationStream", "gemini-2.5-flash", protocol)
    /\ lastOp' = "getExplanationStream"
    /\ UNCHANGED ai
    /\ componentUnchanged

getFollowUpAnswerStream(protocol) ==
    /\ callable
    /\ serviceCall' =
           callModel("getFollowUpAnswerStream", "gemini-2.5-flash", protocol)
    /\ lastOp' = "getFollowUpAnswerStream"
    /\ UNCHANGED ai
    /\ componentUnchanged

\* Lines 214-217 return [] before getAi() is reached.
generateQuestions(requests, protocol) ==
    /\ callable
    /\ serviceCall' =
           IF totalQuestions(requests) = 0
           THEN resolved(entered("generateQuestions", protocol, FALSE), << >>)
           ELSE callModel("generateQuestions", "gemini-2.5-flash", protocol)
    /\ lastOp' = "generateQuestions"
    /\ UNCHANGED ai
    /\ componentUnchanged

\* generateIllustration called on its own.
CallIllustration(protocol) ==
    /\ callable
    /\ serviceCall' =
           LET call == entered("generateIllustration", protocol, TRUE)
           IN  IF ai = null
               THEN resolved(call, generateIllustration(ai, NoResponse))
               ELSE [call EXCEPT !.pc = "model",
                                 !.contacted = << "imagen-4.0-generate-001" >>]
    /\ lastOp' = "generateIllustration"
    /\ UNCHANGED ai
    /\ componentUnchanged

awaiting(fns) == serviceCall.pc = "model" /\ serviceCall.fn \in fns

\* generateContentStream settles: the stream is returned as it is.
StreamAnswered ==
    /\ awaiting({ "getExplanationStream", "getFollowUpAnswerStream" })
    /\ \/ \E m \in ApiErrors : serviceCall' = rejected(serviceCall, m)
       \/ serviceCall' = resolved(serviceCall, << "stream" >>)
    /\ lastOp' = "generateContentStream"
    /\ UNCHANGED ai
    /\ componentUnchanged

\* generateContent settles for generateSpeech: without audio data the
\* function throws inside its own try block.
SpeechAnswered ==
    /\ awaiting({ "generateSpeech" })
    /\ \/ \E m \in ApiErrors : serviceCall' = rejected(serviceCall, m)
       \/ \E base64Audio \in { << >>, << "s" >> } :
              serviceCall' =
                  IF base64Audio = << >>
                  THEN rejected(serviceCall, errNoAudio)
                  ELSE resolved(serviceCall, base64Audio)
    /\ lastOp' = "generateContent"
    /\ UNCHANGED ai
    /\ componentUnchanged

IllustrationAnswered ==
    /\ awaiting({ "generateIllustration" })
    /\ \E response \in ImageResponses :
           serviceCall' =
               [resolved(serviceCall, generateIllustration(ai, response))
                   EXCEPT !.responses = << response >>]
    /\ lastOp' = "generateImages"
    /\ UNCHANGED ai
    /\ componentUnchanged

\* generateContent settles for generateQuestions (lines 290-299): the text
\* is parsed, and the map callback runs for every question up to its first
\* await, so every illustration request is issued, in the order of the
\* array, before any of them settles.
QuestionsAnswered ==
    /\ awaiting({ "generateQuestions" })
    /\ \/ \E m \in ApiErrors \cup { errSyntax } :
              serviceCall' = rejected(serviceCall, m)
       \/ \E parsed \in ParsedLists :
              LET wanted == { i \in 1..Len(parsed) : wantsIllustration(parsed[i]) }
              IN  serviceCall' =
                      [serviceCall EXCEPT
                          !.pc = "images",
                          !.parsed = parsed,
                          !.pending = wanted,
                          !.illustrated = [i \in 1..Len(parsed) |-> null],
                          !.responses = [i \in 1..Len(parsed) |-> NoResponse],
                          !.contacted =
                              @ \o [k \in 1..Cardinality(wanted) |->
                                        "imagen-4.0-generate-001"]]
    /\ lastOp' = "generateContent"
    /\ UNCHANGED ai
    /\ componentUnchanged

\* The illustration of question i settles, in any order.
IllustrationSettled(i) ==
    /\ serviceCall.pc = "images"
    /\ i \in serviceCall.pending
    /\ \E response \in ImageResponses :
           serviceCall' =
               [serviceCall EXCEPT
                   !.pending = @ \ { i },
                   !.illustrated[i] = generateIllustration(ai, response),
                   !.responses[i] = response]
    /\ lastOp' = "generateImages"
    /\ UNCHANGED ai
    /\ componentUnchanged

\* Promise.all resolves and generateQuestions returns (lines 293-302).
QuestionsReturned ==
    /\ serviceCall.pc = "images"
    /\ serviceCall.pending = {}
    /\ serviceCall' =
           resolved(serviceCall,
                    questionsWithImages(serviceCall.parsed,
                                        serviceCall.illustrated))
    /\ lastOp' = "Promise.all"
    /\ UNCHANGED ai
    /\ componentUnchanged

NextService ==
    \/ \E apiKey \in ApiKeys : initializeAi(apiKey)
    \/ \E protocol \in Protocols : generateSpeech(protocol)
    \/ \E protocol \in Protocols : getExplanationStream(protocol)
    \/ \E protocol \in Protocols : getFollowUpAnswerStream(protocol)
    \/ \E requests \in Requests, protocol \in Protocols :
           generateQuestions(requests, protocol)
    \/ \E protocol \in Protocols : CallIllustration(protocol)
    \/ StreamAnswered
    \/ SpeechAnswered
    \/ IllustrationAnswered
    \/ QuestionsAnswered
    \/ \E i \in 1..MaxParsedQuestions : IllustrationSettled(i)
    \/ QuestionsReturned

SpecService == InitService /\ [][NextService]_vars

-----------------------------------------------------------------------------
(* Properties of the session *)

Slots == 1..length
IsShortAnswer(i) == ~IsMcOrOx(questions[i])

\* C1 (monotonicity of checking): once checkedStates[i] is true it is true
\* in every later state, whatever operation is taken.
C1_CheckedMonotonic ==
    [][\A i \in Slots : checkedStates[i] => checkedStates'[i]]_vars

\* Two questions are checked and the learner has gone back to the first.
C1_Witness ==
    /\ length >= 2
    /\ checkedStates[1] /\ checkedStates[2]
    /\ currentQuestionIndex = 0
    /\ lastOp = "handlePrev"

\* C2 (answer lock): a step that changes userAnswers[i] starts in a state
\* where checkedStates[i] is false; a checked question's answer keeps its
\* value through every later operation.
C2_AnswerLock ==
    [][\A i \in Slots :
          userAnswers'[i] # userAnswers[i] => ~checkedStates[i]]_vars

\* An option was pressed on a checked multiple-choice/ox question that the
\* learner came back to.
C2_Witness ==
    /\ length >= 2
    /\ currentQuestionIndex = 0
    /\ isMcOrOx /\ isAnswerChecked
    /\ checkedStates[2]
    /\ lastOp = "handleAnswerSelect"

\* C3 (advance gating): no step increments currentQuestionIndex or completes
\* the session while the current question is unchecked, nor while it is a
\* checked short-answer question without a self-assessment.
C3_AdvanceGating ==
    [][(currentQuestionIndex' = currentQuestionIndex + 1 \/ (~showResults /\ showResults'))
          => /\ checkedStates[cur]
             /\ ~(IsShortAnswer(cur) /\ selfAssessedCorrectness[cur] = null)]_vars

\* The learner advanced to a short-answer question, checked it and has not
\* assessed it: the next button is shown and disabled.
C3_Witness ==
    /\ currentQuestionIndex >= 1
    /\ IsShortAnswer(cur)
    /\ checkedStates[cur]
    /\ selfAssessedCorrectness[cur] = null
    /\ lastOp = "handleCheckAnswer"

\* C4 (completion gating): while some short-answer question is checked and
\* not self-assessed the session is not completed and no report has been
\* delivered.
C4_CompletionGating ==
    (\E i \in Slots :
        IsShortAnswer(i) /\ checkedStates[i] /\ selfAssessedCorrectness[i] = null)
    => (~showResults /\ submitted = << >>)

\* The last question is a checked short-answer question without a
\* self-assessment, and an earlier short-answer question was assessed.
C4_Witness ==
    /\ length >= 2
    /\ isLastQuestion
    /\ IsShortAnswer(cur) /\ checkedStates[cur]
    /\ selfAssessedCorrectness[cur] = null
    /\ IsShortAnswer(1) /\ selfAssessedCorrectness[1] # null
    /\ ~showResults

\* C5 (score computation): in a delivered report, correctness[i] is the
\* matcher's verdict on (userAnswers[i], answer) for a multiple-choice/ox
\* question and (selfAssessedCorrectness[i] is true) otherwise; correctAnswers
\* counts the true entries, totalQuestions is the question count and
\* score * totalQuestions = correctAnswers * 100 (score is the fraction
\* num/den).
C5_ScoreComputation ==
    \A k \in 1..Len(submitted) :
        LET r == submitted[k]
        IN  /\ \A i \in Slots :
                   r.correctness[i] =
                       (IF IsShortAnswer(i)
                        THEN selfAssessedCorrectness[i] = Val(TRUE)
                        ELSE isAnswerMatch(userAnswers[i], questions[i].answer))
            /\ r.correctAnswers = Cardinality({ i \in Slots : r.correctness[i] })
            /\ r.totalQuestions = length
            /\ r.score.num * r.totalQuestions = r.correctAnswers * 100 * r.score.den

\* Multiple-choice answered "B" for "B", ox answered "X" for "O", short answer
\* self-assessed correct: 2 of 3, [true, false, true], 200/3 percent.
C5_Witness ==
    /\ length = 3
    /\ questions[1].questionType = "multiple-choice"
    /\ questions[2].questionType = "ox"
    /\ questions[3].questionType = "short-answer"
    /\ questions[1].answer = <<"B">> /\ userAnswers[1] = Val(<<"B">>)
    /\ questions[2].answer = <<"O">> /\ userAnswers[2] = Val(<<"X">>)
    /\ selfAssessedCorrectness[3] = Val(TRUE)
    /\ Len(submitted) = 1
    /\ submitted[1].correctAnswers = 2
    /\ submitted[1].totalQuestions = 3
    /\ submitted[1].score = [num |-> 200, den |-> 3]
    /\ submitted[1].correctness = << TRUE, FALSE, TRUE >>

\* C6 (report delivered exactly once): onSubmit is called at most once; the
\* call and the change to completed happen in one and the same step, which is
\* a handleNext taken at the last index.
C6_ReportOnce ==
    [][/\ Len(submitted') <= 1
       /\ (submitted' # submitted) <=> (~showResults /\ showResults')
       /\ (submitted' # submitted)
             => /\ lastOp' = "handleNext"
                /\ currentQuestionIndex = length - 1
                /\ currentQuestionIndex' = currentQuestionIndex]_vars

\* The report of a session of several questions has been delivered.
C6_Witness ==
    /\ length >= 2
    /\ showResults
    /\ Len(submitted) = 1

\* C7 (completed is terminal): from a completed session no step changes
\* showResults, currentQuestionIndex, userAnswers, checkedStates or
\* selfAssessedCorrectness.
C7_CompletedTerminal ==
    [][showResults =>
          /\ showResults'
          /\ UNCHANGED << currentQuestionIndex, userAnswers, checkedStates,
                          selfAssessedCorrectness >>]_vars

\* The session was completed by the next button of the last question.
C7_Witness ==
    /\ showResults
    /\ lastOp = "handleNext"
    /\ isLastQuestion

\* C8 (navigation bounds): 0 <= currentQuestionIndex < question count always;
\* a step changes the index by -1 (handlePrev), +1 (handleNext that does not
\* complete) or 0; handlePrev at index 0 changes nothing of the session.
C8_NavigationBounds ==
    /\ [](currentQuestionIndex \in 0..(length - 1))
    /\ [][/\ currentQuestionIndex' - currentQuestionIndex \in { -1, 0, 1 }
          /\ currentQuestionIndex' = currentQuestionIndex - 1
                => lastOp' = "handlePrev"
          /\ currentQuestionIndex' = currentQuestionIndex + 1
                => (lastOp' = "handleNext" /\ ~showResults')
          /\ (lastOp' = "handlePrev" /\ currentQuestionIndex = 0)
                => UNCHANGED << session, tempShortAnswer, submitted >>]_vars

\* handlePrev ran at index 0: the first question is unchecked, so the index
\* has never been advanced.
C8_Witness ==
    /\ currentQuestionIndex = 0
    /\ ~checkedStates[1]
    /\ length >= 2
    /\ lastOp = "handlePrev"

\* C9 (draft isolation): on a checked short-answer question a change of the
\* input changes neither userAnswers nor the draft.
C9_DraftIsolation ==
    [][(lastOp' = "handleShortAnswerChange" /\ IsShortAnswer(cur) /\ checkedStates[cur])
          => UNCHANGED << userAnswers, tempShortAnswer >>]_vars

\* Text was typed into the input of a checked short-answer question whose
\* committed answer is "a ".
C9_Witness ==
    /\ IsShortAnswer(cur)
    /\ checkedStates[cur]
    /\ userAnswers[cur] = Val(<< "a", " " >>)
    /\ tempShortAnswer = << "a", " " >>
    /\ lastOp = "handleShortAnswerChange"

\* C10 (checkAnswer commits the draft): checking a short-answer question sets
\* userAnswers[i] to the draft as it is (not trimmed) and checkedStates[i] to
\* true in the same step; checking a multiple-choice/ox question leaves
\* userAnswers unchanged.
C10_CheckCommitsDraft ==
    [][lastOp' = "handleCheckAnswer" =>
          /\ checkedStates'[cur]
          /\ IF IsShortAnswer(cur)
             THEN userAnswers'[cur] = Val(tempShortAnswer)
             ELSE userAnswers' = userAnswers]_vars

\* A short-answer question was just checked with the untrimmed draft "a ".
C10_Witness ==
    /\ IsShortAnswer(cur)
    /\ checkedStates[cur]
    /\ userAnswers[cur] = Val(<< "a", " " >>)
    /\ selfAssessedCorrectness[cur] = null
    /\ lastOp = "handleCheckAnswer"

\* C11 (checkAnswer requires an answer): a checked question has a non-null
\* userAnswers entry, and for a short-answer question the committed text is
\* non-empty after trimming.
C11_CheckedHasAnswer ==
    \A i \in Slots :
        checkedStates[i] =>
            /\ userAnswers[i] # null
            /\ IsShortAnswer(i) => trim(Get(userAnswers[i])) # << >>

\* An answered first question was checked and passed; the draft of the
\* short-answer question now shown is a single space, so it cannot be checked.
C11_Witness ==
    /\ currentQuestionIndex = 1
    /\ checkedStates[1] /\ userAnswers[1] # null
    /\ IsShortAnswer(cur)
    /\ ~checkedStates[cur]
    /\ tempShortAnswer = << " " >>
    /\ isCheckAnswerDisabled

\* C12 (automatic grading is never self-assessed): the selfAssessedCorrectness
\* entry of a multiple-choice or ox question is null in every state.
C12_AutoGradedNeverAssessed ==
    \A i \in Slots :
        IsMcOrOx(questions[i]) => selfAssessedCorrectness[i] = null

\* A short-answer question was self-assessed, and the checked question now
\* shown is a multiple-choice/ox one.
C12_Witness ==
    /\ currentQuestionIndex = 1
    /\ IsShortAnswer(1) /\ selfAssessedCorrectness[1] # null
    /\ isMcOrOx /\ isAnswerChecked
    /\ lastOp = "handleCheckAnswer"

\* C13 (self-assessment only after check): a non-null selfAssessedCorrectness
\* entry belongs to a checked question, and no step records an assessment for
\* a question that is not checked.
C13_AssessedOnlyChecked ==
    /\ [](\A i \in Slots : selfAssessedCorrectness[i] # null => checkedStates[i])
    /\ [][\A i \in Slots :
             selfAssessedCorrectness'[i] # selfAssessedCorrectness[i]
                 => checkedStates[i]]_vars

\* The first question was self-assessed; the short-answer question now shown
\* has a draft and is not checked, and has no assessment.
C13_Witness ==
    /\ currentQuestionIndex = 1
    /\ selfAssessedCorrectness[1] # null
    /\ IsShortAnswer(cur) /\ ~checkedStates[cur]
    /\ tempShortAnswer = << "a" >>
    /\ selfAssessedCorrectness[cur] = null

\* The value passed by the latest call of handleSelfAssessment for slot i.
CallsFor(i) == { k \in 1..Len(selfAssessCalls) : selfAssessCalls[k][1] = i }
LastCallFor(i) ==
    selfAssessCalls[CHOOSE k \in CallsFor(i) : \A j \in CallsFor(i) : j <= k][2]

\* C14 (re-assessment is last-write-wins): after any calls of selfAssess on a
\* checked short-answer question, selfAssessedCorrectness[i] is the value of
\* the latest call (true then false leaves false, false then true leaves true).
C14_LastWriteWins ==
    \A i \in Slots :
        CallsFor(i) # {} => selfAssessedCorrectness[i] = Val(LastCallFor(i))

\* selfAssess(true) and then selfAssess(false) were the two latest calls, both
\* on the checked short-answer question shown.
C14_Witness ==
    LET n == Len(selfAssessCalls)
    IN  /\ n >= 2
        /\ selfAssessCalls[n - 1] = << cur, TRUE >>
        /\ selfAssessCalls[n] = << cur, FALSE >>
        /\ IsShortAnswer(cur) /\ checkedStates[cur]
        /\ selfAssessedCorrectness[cur] = Val(FALSE)
        /\ lastOp = "handleSelfAssessment"

\* C15 (self-assessment is recorded once): in the session of the rendered
\* component, once selfAssessedCorrectness[i] is non-null no step changes it.
C15_AssessedOnce ==
    [][\A i \in Slots :
          selfAssessedCorrectness[i] # null
              => selfAssessedCorrectness'[i] = selfAssessedCorrectness[i]]_vars

\* The learner is back on an assessed short-answer question: its assessment
\* is shown and the two buttons are not.
C15_Witness ==
    /\ length >= 2
    /\ currentQuestionIndex = 0
    /\ IsShortAnswer(1)
    /\ selfAssessedCorrectness[1] = Val(TRUE)
    /\ checkedStates[2]
    /\ ~selfAssessmentRendered
    /\ lastOp = "handlePrev"

\* C16 (navigation does not touch answers): handlePrev, and handleNext when it
\* does not complete the session, change at most currentQuestionIndex and the
\* draft; userAnswers, checkedStates and selfAssessedCorrectness are the same
\* before and after.
C16_NavigationFrame ==
    [][(lastOp' \in { "handlePrev", "handleNext" } /\ ~showResults')
          => UNCHANGED << questions, userAnswers, checkedStates,
                          selfAssessedCorrectness, showResults, submitted >>]_vars

\* The learner went back from a question with a selected, unchecked option to
\* a checked question; the selection is still there.
C16_Witness ==
    /\ length >= 2
    /\ currentQuestionIndex = 0
    /\ checkedStates[1]
    /\ ~checkedStates[2] /\ userAnswers[2] # null
    /\ lastOp = "handlePrev"

\* C17 (selectOption effect and frame): on an unchecked current question the
\* handler sets that question's userAnswers entry to one of its options and
\* leaves the other entries, checkedStates, selfAssessedCorrectness,
\* currentQuestionIndex and showResults unchanged; on a checked question it
\* changes none of them.
C17_SelectOptionFrame ==
    [][lastOp' = "handleAnswerSelect" =>
          /\ UNCHANGED << questions, currentQuestionIndex, checkedStates,
                          selfAssessedCorrectness, showResults, submitted >>
          /\ \A j \in Slots \ { cur } : userAnswers'[j] = userAnswers[j]
          /\ IF checkedStates[cur]
             THEN userAnswers'[cur] = userAnswers[cur]
             ELSE \E k \in 1..Len(renderedOptions(currentQuestion)) :
                      userAnswers'[cur] = Val(renderedOptions(currentQuestion)[k])]_vars

\* A second option was chosen on the unchecked second question, after the
\* first question was checked with its own answer.
C17_Witness ==
    /\ currentQuestionIndex = 1
    /\ checkedStates[1] /\ userAnswers[1] = Val(<< "B" >>)
    /\ ~checkedStates[2] /\ userAnswers[2] = Val(<< "A" >>)
    /\ lastOp = "handleAnswerSelect"

\* C21 (single grading authority): for every multiple-choice/ox question a
\* report marks the question correct if and only if the option the learner
\* selected is one of the options shown as the correct answer once the
\* question is checked.
C21_SingleGradingAuthority ==
    \A k \in 1..Len(submitted) : \A i \in Slots :
        IsMcOrOx(questions[i]) =>
            /\ submitted[k].userAnswers[i] # null
            /\ submitted[k].correctness[i]
                   <=> Get(submitted[k].userAnswers[i]) \in highlighted(questions[i])

\* A report on a question whose selected option "a." is not the answer "a"
\* letter for letter, yet is the option shown as correct.
C21_Witness ==
    /\ showResults
    /\ Len(submitted) = 1
    /\ questions[1].answer = << "a" >>
    /\ userAnswers[1] = Val(<< "a", "." >>)
    /\ << "a", "." >> \in highlighted(questions[1])
    /\ submitted[1].correctness[1] = TRUE

\* C22 (score range): in every report 0 <= correctCount <= totalCount,
\* totalCount is the number of questions, 0 <= scorePercentage <= 100, and
\* scorePercentage is 100 exactly when every question is correct and 0
\* exactly when none is.
C22_ScoreRange ==
    \A k \in 1..Len(submitted) :
        LET r == submitted[k]
            allCorrect == \A i \in Slots : r.correctness[i]
            noneCorrect == \A i \in Slots : ~r.correctness[i]
        IN  /\ 0 <= r.correctAnswers /\ r.correctAnswers <= r.totalQuestions
            /\ r.totalQuestions = length
            /\ r.score.den > 0
            /\ 0 <= r.score.num /\ r.score.num <= 100 * r.score.den
            /\ r.score.num = 100 * r.score.den <=> allCorrect
            /\ r.score.num = 0 <=> noneCorrect

\* A report with some questions correct and some not.
C22_Witness ==
    /\ showResults
    /\ Len(submitted) = 1
    /\ submitted[1].totalQuestions = 3
    /\ submitted[1].correctAnswers = 1
    /\ submitted[1].score = [num |-> 100, den |-> 3]

\* C23 (report contents): the userAnswers of a report are, slot for slot, the
\* session's userAnswers at the moment of completion, and its correctness
\* sequence has one entry per question, each of them a boolean.
C23_ReportContents ==
    [][submitted' # submitted =>
          LET r == submitted'[Len(submitted')]
          IN  /\ showResults'
              /\ r.userAnswers = userAnswers
              /\ r.userAnswers = userAnswers'
              /\ DOMAIN r.correctness = 1..length
              /\ \A i \in Slots : r.correctness[i] \in BOOLEAN]_vars

\* A report that carries a selected option and a committed short answer whose
\* self-assessment was 'wrong'.
C23_Witness ==
    /\ showResults
    /\ length = 2
    /\ IsMcOrOx(questions[1]) /\ IsShortAnswer(2)
    /\ submitted = << report >>
    /\ submitted[1].userAnswers[1] # null
    /\ submitted[1].userAnswers[2] = Val(<< "a", " " >>)
    /\ submitted[1].correctness[2] = FALSE

\* C24 (length invariant): userAnswers, checkedStates and
\* selfAssessedCorrectness each have one slot per question, indexed as the
\* questions are.
C24_LengthInvariant ==
    /\ DOMAIN userAnswers = 1..length
    /\ DOMAIN checkedStates = 1..length
    /\ DOMAIN selfAssessedCorrectness = 1..length
    /\ \A i \in Slots :
           /\ checkedStates[i] \in BOOLEAN
           /\ userAnswers[i] = null \/ Len(userAnswers[i]) = 1
           /\ selfAssessedCorrectness[i] \in { null, Val(TRUE), Val(FALSE) }

\* All three arrays were written on the way to the last question.
C24_Witness ==
    /\ length = 3
    /\ currentQuestionIndex = 2
    /\ IsShortAnswer(1)
    /\ selfAssessedCorrectness[1] # null
    /\ userAnswers[2] # null
    /\ checkedStates[3]

\* C25 (a check of a checked question changes nothing): handleCheckAnswer
\* applied to an already-checked question leaves userAnswers, checkedStates,
\* selfAssessedCorrectness, currentQuestionIndex, showResults, the draft and
\* the reports as they were.
C25_RecheckNoChange ==
    [][(lastOp' = "handleCheckAnswer" /\ isAnswerChecked)
          => UNCHANGED << questions, currentQuestionIndex, userAnswers,
                          checkedStates, showResults, tempShortAnswer,
                          selfAssessedCorrectness, submitted >>]_vars

\* handleCheckAnswer ran on a short-answer question that already had its
\* self-assessment, hence was checked before.
C25_Witness ==
    /\ lastOp = "handleCheckAnswer"
    /\ IsShortAnswer(cur)
    /\ checkedStates[cur]
    /\ selfAssessedCorrectness[cur] # null
    /\ userAnswers[cur] = Val(<< "a", " " >>)

\* C26 (a question without options degrades locally): a multiple-choice
\* question with no options never gets an answer and is never checked; while
\* it is the current question the component is still rendered, the index and
\* the arrays are in order, and the previous button still leads back.
C26_MalformedDegrades ==
    \A i \in Slots :
        (questions[i].questionType = "multiple-choice" /\ noOptions(questions[i])) =>
            /\ userAnswers[i] = null
            /\ ~checkedStates[i]
            /\ cur = i =>
                   /\ rendered
                   /\ ~(ENABLED SelectOption)
                   /\ ~(ENABLED CheckAnswer)
                   /\ currentQuestionIndex \in 0..(length - 1)
                   /\ C24_LengthInvariant
                   /\ ENABLED (GoPrev /\ (currentQuestionIndex > 0 =>
                                  currentQuestionIndex' = currentQuestionIndex - 1))

\* The learner reached a multiple-choice question without options after
\* checking the first question.
C26_Witness ==
    /\ currentQuestionIndex = 1
    /\ questions[2].questionType = "multiple-choice" /\ noOptions(questions[2])
    /\ checkedStates[1]
    /\ lastOp = "handleNext"

graded(i) ==
    /\ checkedStates[i]
    /\ IsShortAnswer(i) => selfAssessedCorrectness[i] # null

\* Question i has an answer, a check or an assessment.
touched(i) ==
    userAnswers[i] # null \/ checkedStates[i] \/ selfAssessedCorrectness[i] # null

\* C31 (frontier invariant): every question before the current one is
\* checked, and assessed if it is a short-answer question; the index only
\* moves forward from such a question; hence a question that is not yet
\* checked and assessed has nothing but untouched questions after it.
C31_Frontier ==
    /\ [](\A j \in Slots : j < cur => graded(j))
    /\ [](\A j \in Slots : \A k \in Slots : (j < k /\ touched(k)) => graded(j))
    /\ [][currentQuestionIndex' > currentQuestionIndex => graded(cur)]_vars

\* The learner went back to the first of three questions, all of them
\* checked and the short answers assessed.
C31_Witness ==
    /\ length = 3
    /\ currentQuestionIndex = 0
    /\ lastOp = "handlePrev"
    /\ IsShortAnswer(2)
    /\ \A j \in Slots : graded(j)
    /\ ~showResults

\* C32 (report only over fully graded sessions): when a report has been
\* produced every question is checked, every userAnswers slot is non-null
\* and every short-answer question has a self-assessment.
C32_ReportFullyGraded ==
    submitted # << >> =>
        \A i \in Slots :
            /\ checkedStates[i]
            /\ userAnswers[i] # null
            /\ submitted[1].userAnswers[i] # null
            /\ IsShortAnswer(i) => selfAssessedCorrectness[i] # null

\* A report whose last question is a short answer assessed as wrong.
C32_Witness ==
    /\ submitted # << >>
    /\ length = 2
    /\ IsShortAnswer(2)
    /\ selfAssessedCorrectness[2] = Val(FALSE)
    /\ submitted[1].correctness[2] = FALSE

\* C33 (the draft does not leak between questions): when the current
\* question changes the draft becomes the new question's saved answer if it
\* is a short-answer question with one, and the empty string otherwise; a
\* short answer is committed only for the current question and only from the
\* draft; an unchecked question has no saved answer, so a draft typed on it
\* is gone when the learner comes back.
C33_DraftDoesNotLeak ==
    /\ [][currentQuestionIndex' # currentQuestionIndex =>
             tempShortAnswer' =
                 IF IsShortAnswer(currentQuestionIndex' + 1)
                        /\ userAnswers[currentQuestionIndex' + 1] # null
                 THEN Get(userAnswers[currentQuestionIndex' + 1])
                 ELSE << >>]_vars
    /\ [][\A i \in Slots :
             (IsShortAnswer(i) /\ userAnswers'[i] # userAnswers[i]) =>
                 /\ i = cur
                 /\ currentQuestionIndex' = currentQuestionIndex
                 /\ userAnswers'[i] = Val(tempShortAnswer)]_vars
    /\ [](\A i \in Slots :
             (IsShortAnswer(i) /\ ~checkedStates[i]) => userAnswers[i] = null)

\* The learner went back from an unchecked short-answer question to a
\* checked one: the draft is the committed answer of the question shown.
C33_Witness ==
    /\ length >= 2
    /\ currentQuestionIndex = 0
    /\ lastOp = "handlePrev"
    /\ IsShortAnswer(1) /\ userAnswers[1] = Val(<< "a", " " >>)
    /\ IsShortAnswer(2) /\ ~checkedStates[2] /\ userAnswers[2] = null
    /\ tempShortAnswer = << "a", " " >>

\* C34 (completion is always reachable): with a list in which every
\* multiple-choice question has an option, a forward action is possible in
\* every state before completion, and a learner who from some point on takes
\* forward actions only reaches completion.
C34_CompletionReachable ==
    /\ [](~showResults => ENABLED ForwardStep)
    /\ (<>[][ForwardStep]_vars) => <>showResults

\* A quiz of two questions, the last one a short answer, was completed.
C34_Witness ==
    /\ showResults
    /\ length = 2
    /\ IsShortAnswer(2)
    /\ Len(selfAssessCalls) = 1
    /\ submitted # << >>

-----------------------------------------------------------------------------
(* Properties of the session while audio is requested and played *)

\* Every session operation whose own precondition holds can be performed:
\* the precondition is stated on the session state alone.
OperationsAvailable ==
    ~showResults =>
        /\ ENABLED GoPrev
        /\ renderedOptions(currentQuestion) # << >> => ENABLED SelectOption
        /\ ~isMcOrOx => ENABLED TypeShortAnswer
        /\ (~isAnswerChecked /\ hasAnswer) => ENABLED CheckAnswer
        /\ (~isMcOrOx /\ isAnswerChecked /\ selfAssessedCorrectness[cur] = null)
               => ENABLED SelfAssess
        /\ (isAnswerChecked
                /\ ~(~isMcOrOx /\ selfAssessedCorrectness[cur] = null))
               => ENABLED GoNext

\* A call of handlePlayScript is waiting for generateSpeech or for decoding.
requestPending ==
    \E r \in PlayIds : playCalls[r] \in { "generateSpeech", "decodeAudioData" }

\* C27 (speech failure leaves the session valid): no step of a call of
\* handlePlayScript, from the press to its success or failure and the end of
\* playback, changes currentQuestionIndex, userAnswers, checkedStates,
\* selfAssessedCorrectness or showResults; and once a call has failed every
\* session operation whose precondition holds can still be performed.
C27_SpeechLeavesSession ==
    /\ [][lastOp' \in { "handlePlayScript", "generateSpeech", "source.start",
                        "catch", "onended", "close" }
             => UNCHANGED << questions, currentQuestionIndex, userAnswers,
                             checkedStates, selfAssessedCorrectness,
                             showResults, submitted >>]_vars
    /\ []((\E r \in PlayIds : playCalls[r] = "failed") => OperationsAvailable)

\* A speech request failed on the first question, and the learner then had
\* the question checked and moved on.
C27_Witness ==
    /\ playCalls[1] = "failed"
    /\ currentQuestionIndex = 1
    /\ checkedStates[1]
    /\ userAnswers[1] # null
    /\ lastOp = "handleNext"

\* C28 (no blocking on collaborators): while a speech request is pending,
\* every session operation whose precondition holds can be performed, and
\* every change of the session state, whatever the audio state and however
\* the request's steps interleave, is a step of one of the session events.
C28_NoBlocking ==
    /\ []((isLoadingTTS \/ requestPending) => OperationsAvailable)
    /\ [][Next]_sessionState

\* A question was checked while the speech request was still pending.
C28_Witness ==
    /\ isLoadingTTS
    /\ playCalls[1] = "generateSpeech"
    /\ checkedStates[1]
    /\ lastOp = "handleCheckAnswer"

\* C29 (audio stops on question change): a change of currentQuestionIndex
\* leaves no source playing, and from then until the play control is pressed
\* on the new question no source is playing, however the steps of a pending
\* speech request interleave with the navigation.
C29_AudioStopsOnQuestionChange ==
    /\ [][currentQuestionIndex' # currentQuestionIndex
             => \A r \in PlayIds :
                    ~(audioSources'[r] = "playing" /\ audioContexts'[r] = "open")]_vars
    /\ [](~playPressed => \A r \in PlayIds : ~playing(r))

\* C35 (at most one playback): at most one source is playing at any time,
\* and a source that is playing is the one audioSourceRef holds.
C35_AtMostOnePlayback ==
    [](/\ Cardinality({ r \in PlayIds : playing(r) }) <= 1
       /\ \A r \in PlayIds : playing(r) => audioSourceRef = Val(r))

\* C36 (the loading indicator always clears): isLoadingTTS and isSpeaking are
\* never both true; a call of handlePlayScript that is waiting eventually
\* starts playback or fails; when it starts playback isLoadingTTS is false
\* and isSpeaking true, when it fails both are false; and isLoadingTTS, once
\* true, is eventually false.
C36_LoadingClears ==
    /\ [](~(isLoadingTTS /\ isSpeaking))
    /\ \A r \in 1..MaxPlays :
           (playCalls[r] = "generateSpeech")
               ~> (playCalls[r] \in { "started", "failed" })
    /\ [][\A r \in PlayIds :
             /\ (playCalls'[r] = "started" /\ playCalls[r] # "started")
                    => (~isLoadingTTS' /\ isSpeaking')
             /\ (playCalls'[r] = "failed" /\ playCalls[r] # "failed")
                    => (~isLoadingTTS' /\ ~isSpeaking')]_vars
    /\ isLoadingTTS ~> ~isLoadingTTS

\* Playback started on the question the play control was pressed on.
C36_Witness ==
    /\ playCalls[1] = "started"
    /\ isSpeaking /\ ~isLoadingTTS
    /\ playing(1)
    /\ playPressed
    /\ lastOp = "source.start"

-----------------------------------------------------------------------------
(* Properties of isAnswerMatch *)

returned == matcherCall.result # null
result == Get(matcherCall.result)

\* The string with whitespace removed from both ends, then one trailing
\* '.' or ',' removed, and nothing more.
normalForm(s) == stripTrailingPunct(trim(s))

IsWhiteSpace(s) == \A k \in 1..Len(s) : s[k] \in WhiteSpace

\* c is a with whitespace added before it, after it, or both.
Surrounds(c, a) ==
    \E i \in 0..(Len(c) - Len(a)) :
        /\ IsWhiteSpace(SubSeq(c, 1, i))
        /\ SubSeq(c, i + 1, i + Len(a)) = a
        /\ IsWhiteSpace(SubSeq(c, i + Len(a) + 1, Len(c)))

\* c is a followed by one '.' or ','.
AddsTrailingPunct(c, a) ==
    /\ Len(c) = Len(a) + 1
    /\ SubSeq(c, 1, Len(a)) = a
    /\ c[Len(c)] \in { ".", "," }

\* The characters of s that are neither whitespace nor '.' nor ','.
Letters(s) == SelectSeq(s, LAMBDA ch : ch \notin WhiteSpace \cup { ".", "," })

\* s is empty or ends in a character other than whitespace, '.' and ','.
EndsInLetter(s) == s = << >> \/ s[Len(s)] \notin WhiteSpace \cup { ".", "," }

\* C18 (matcher steps 1-2): the result is false when the candidate is absent,
\* and true for every non-absent candidate equal to the canonical answer,
\* the empty string included.
C18_ExactMatch ==
    returned =>
        /\ matcherCall.option = null => result = FALSE
        /\ (matcherCall.option # null /\ Get(matcherCall.option) = matcherCall.answer)
               => result = TRUE

\* C19 (matcher step 3): for a non-absent candidate that is not exactly equal
\* to the canonical answer, the result is true if and only if the two strings
\* are equal after each is trimmed and then has one trailing '.' or ','
\* removed, with no second trim.
C19_NormalisedMatch ==
    (/\ returned
     /\ matcherCall.option # null
     /\ Get(matcherCall.option) # matcherCall.answer)
        => (result = TRUE
               <=> normalForm(Get(matcherCall.option)) = normalForm(matcherCall.answer))

\* C20 as stated (limited leniency): a candidate that differs from the
\* canonical answer only by surrounding whitespace, or only by one added
\* trailing '.' or ',', is accepted; a candidate that differs in letter case
\* or in any other character is rejected; an absent candidate is rejected.
C20_LeniencyAsStated ==
    returned =>
        /\ matcherCall.option = null => result = FALSE
        /\ matcherCall.option # null =>
               LET c == Get(matcherCall.option)
                   a == matcherCall.answer
               IN  /\ (c # a /\ Surrounds(c, a)) => result = TRUE
                   /\ AddsTrailingPunct(c, a) => result = TRUE
                   /\ Letters(c) # Letters(a) => result = FALSE

\* C20 (limited leniency, amended): a candidate that is the canonical answer
\* with whitespace added around it is accepted; a candidate that is the
\* canonical answer followed by one '.' or ',' is accepted exactly when the
\* answer, leading whitespace aside, is empty or ends in a character other
\* than whitespace, '.' and ','; a candidate that differs in letter case or
\* in any other character is rejected; an absent candidate is rejected.
C20_LimitedLeniency ==
    returned =>
        /\ matcherCall.option = null => result = FALSE
        /\ matcherCall.option # null =>
               LET c == Get(matcherCall.option)
                   a == matcherCall.answer
               IN  /\ (c # a /\ Surrounds(c, a)) => result = TRUE
                   /\ AddsTrailingPunct(c, a)
                          => (result = TRUE <=> EndsInLetter(trimStart(a)))
                   /\ Letters(c) # Letters(a) => result = FALSE

\* The answer followed by a full stop was accepted.
C20_Witness ==
    /\ returned
    /\ matcherCall.option = Val(<< "A", "a", "." >>)
    /\ matcherCall.answer = << "A", "a" >>
    /\ result = TRUE

\* C37: the matcher is symmetric and reflexive on non-empty strings: for
\* non-empty a and b, isAnswerMatch(a, b) = isAnswerMatch(b, a), and
\* isAnswerMatch(a, a) is true.
C37_MatcherSymmetry ==
    (/\ returned
     /\ ~falsy(matcherCall.option)
     /\ matcherCall.answer # << >>)
        => /\ result = isAnswerMatch(Val(matcherCall.answer), Get(matcherCall.option))
           /\ Get(matcherCall.option) = matcherCall.answer => result = TRUE

C37_Witness ==
    /\ returned
    /\ matcherCall.option = Val(<< "a", "." >>)
    /\ matcherCall.answer = << "a", " " >>
    /\ result = TRUE
    /\ isAnswerMatch(Val(matcherCall.answer), Get(matcherCall.option))

-----------------------------------------------------------------------------
(* Properties of geminiService *)

\* C38: a call to generateSpeech, generateQuestions (with a positive
\* requested count), getExplanationStream or getFollowUpAnswerStream made
\* before initializeAi has succeeded fails with the error raised by getAi
\* ("AI service not initialised, set the API key first") and contacts no
\* model.
C38_UninitialisedError ==
    (/\ serviceCall.pc = "done"
     /\ serviceCall.fn \in { "generateSpeech", "generateQuestions",
                             "getExplanationStream", "getFollowUpAnswerStream" }
     /\ ~serviceCall.initialised
     /\ serviceCall.positive)
        => /\ serviceCall.error = Val(errNotInitialised)
           /\ serviceCall.contacted = << >>

\* C39: generateIllustration never raises: it returns null on any failure,
\* an uninitialised client included. So generateQuestions returns every
\* parsed question, in the original order, even when some or all of the
\* illustration requests fail, and imageBase64 is absent on exactly the
\* questions whose illustration failed or was not requested.
C39_IllustrationFailureNonFatal ==
    /\ [](serviceCall.fn = "generateIllustration" /\ serviceCall.pc = "done"
              => /\ serviceCall.error = null
                 /\ serviceCall.value =
                        Val(IF /\ serviceCall.initialised
                               /\ serviceCall.responses[1].kind = "image"
                            THEN Val(serviceCall.responses[1].bytes)
                            ELSE null))
    /\ [][serviceCall.pc = "images"
              => /\ serviceCall'.pc \in { "images", "done" }
                 /\ serviceCall'.error = null
                 /\ serviceCall'.parsed = serviceCall.parsed]_vars
    /\ [](/\ serviceCall.fn = "generateQuestions"
           /\ serviceCall.pc = "done"
           /\ serviceCall.positive
           /\ serviceCall.error = null
              => LET parsed == serviceCall.parsed
                     out == Get(serviceCall.value)
                 IN  /\ Len(out) = Len(parsed)
                     /\ \A i \in 1..Len(parsed) :
                            LET failed == serviceCall.responses[i].kind # "image"
                            IN  /\ out[i].id = parsed[i].id
                                /\ out[i].imagePrompt = parsed[i].imagePrompt
                                /\ out[i].imageBase64 = null
                                       <=> (~wantsIllustration(parsed[i]) \/ failed)
                                /\ out[i].imageBase64 # null
                                       => out[i].imageBase64
                                              = Val(serviceCall.responses[i].bytes))

C39_Witness ==
    /\ serviceCall.fn = "generateQuestions"
    /\ serviceCall.pc = "done"
    /\ serviceCall.error = null
    /\ Len(serviceCall.parsed) = 2
    /\ serviceCall.responses[1].kind = "throws"
    /\ serviceCall.responses[2].kind = "image"
    /\ Len(Get(serviceCall.value)) = 2
    /\ Get(serviceCall.value)[1].imageBase64 = null
    /\ Get(serviceCall.value)[2].imageBase64 = Val(<< "j" >>)

=============================================================================
